---- MODULE Spec2Model ----
(***************************************************************************)
(* The experiment orchestrator of run_all_experiments.py: argument         *)
(* validation, benchmark-set expansion, the sequential loop and the        *)
(* multiprocessing.Pool branch of main(), the streaming and the final      *)
(* report, and the promotion of the best targets to the save bucket; and   *)
(* the helpers of agent/base_agent.py: _parse_tag, _filter_code and the    *)
(* round handler _container_handle_bash_command.                           *)
(*                                                                         *)
(* Strings the code tests by suffix or emptiness (file names, CLI string   *)
(* arguments) are sequences of one-character strings, so that endswith and *)
(* truthiness are computed the way Python computes them.                   *)
(***************************************************************************)
EXTENDS Integers, Sequences, FiniteSets, TLC

\* ------------------------------------------------------------------ bounds
MaxConfigs == 3   \* most experiment configs one run expands to
MaxFiles == 2     \* most entries os.listdir returns
MaxNumExp == 2    \* largest value of LLM_NUM_EXP

\* ------------------------------------------------------- string helpers
EMPTY == <<>>

Truthy(s) == s # EMPTY

\* str.endswith
EndsWith(s, suffix) ==
  /\ Len(s) >= Len(suffix)
  /\ SubSeq(s, Len(s) - Len(suffix) + 1, Len(s)) = suffix

DOT_YAML == <<".", "y", "a", "m", "l">>
YML == <<"y", "m", "l">>
A_YAML == <<"a">> \o DOT_YAML
B_YML == <<"b", ".">> \o YML
C_TXT == <<"c", ".", "t", "x", "t">>
DIR == <<"d">>
SAVE_BUCKET == <<"s">>

SeqsUpTo(S, n) == UNION {[1..k -> S] : k \in 0..n}

\* ------------------------------------------------------------ benchmarks
\* benchmarklib.Benchmark: the fields the orchestrator reads; the id names
\* the project and the function.
Benchmark(project, function_name) ==
  [id |-> project \o "-" \o function_name,
   project |-> project,
   function_name |-> function_name,
   function_signature |-> "int " \o function_name \o "(int)"]

\* The functions a descriptor file may list, in the file's order.
Functions == <<Benchmark("p1", "f"), Benchmark("p1", "g")>>

\* What Benchmark.from_yaml may return for one file: the first functions
\* of the list, or none.
FileBenchmarks == {SubSeq(Functions, 1, n) : n \in 0..Len(Functions)}

\* The names os.listdir may return.
FileNames == {A_YAML, B_YML, C_TXT}

\* ------------------------------------------------------------- pipeline
\* What the body of one experiment does: WorkDirs(), LLM.setup() or
\* run_one_experiment.run() raises e, or run() returns with a best sample
\* of some coverage diff.
CovDiffs == {-1, 0, 5}

Outcomes ==
  { [kind |-> "raise", e |-> ""] }
  \cup { [kind |-> "return", cov |-> c] : c \in CovDiffs }

NoOutcome == [kind |-> "none"]

VARIABLES
  pc,                  \* where main() is
  exit,                \* how the process ended: "running", "ok", "error"
  args,                \* the argparse.Namespace
  template_is_dir,     \* os.path.isdir(args.template_directory)
  NUM_EXP,             \* int(os.getenv('LLM_NUM_EXP', '2'))
  benchmark_yamls,     \* get_experiment_configs: the files still to load
  experiment_configs,  \* the benchmarks of the configs, in order
  experiment_results,  \* main()'s result list
  experiment_tasks,    \* the AsyncResult of each submission
  taskqueue,           \* the pool's queue of submitted jobs
  running,             \* the jobs the pool's busy worker processes run
  outqueue,            \* results on their way back to the calling process
  pipeline,            \* job -> what its pipeline did
  stdout,              \* what was printed, in order
  completed,           \* the jobs whose run_experiments has returned, in order
  uploads,             \* blobs uploaded to the save bucket, in order
  errlog,              \* logging.error records
  save_calls,          \* how many times main() called _save_best_target
  save_i,              \* _save_best_target: the loop's position
  \* BaseAgent (agent/base_agent.py)
  op,                  \* the method of BaseAgent that is called
  agent_pc,            \* "idle", "call", then "returned" or "raised"
  response,            \* the LLM's reply text
  tag,                 \* _parse_tag's tag
  raw_code_block,      \* _filter_code's argument
  cur_round,           \* the round number
  retval,              \* what the method returned
  executed,            \* the calls of tool.execute, in order
  warnings             \* the records logged at logging.WARNING

orch_vars ==
  <<pc, exit, args, template_is_dir, NUM_EXP, benchmark_yamls,
    experiment_configs, experiment_results, experiment_tasks, taskqueue,
    running, outqueue, pipeline, stdout, completed, uploads, errlog,
    save_calls, save_i>>

agent_vars ==
  <<op, agent_pc, response, tag, raw_code_block, cur_round, retval, executed,
    warnings>>

vars == <<orch_vars, agent_vars>>

\* No method of the agent is called.
AgentIdle ==
  /\ op = "none"
  /\ agent_pc = "idle"
  /\ response = <<>>
  /\ tag = <<>>
  /\ raw_code_block = <<>>
  /\ cur_round = 0
  /\ retval = <<>>
  /\ executed = <<>>
  /\ warnings = <<>>

N == Len(experiment_configs)

\* ------------------------------------------------------------ parse_args
\* parse_args without the assertion on the template directory
ArgsAccepted_TemplateUnchecked(a, tdir) ==
  /\ (a.num_samples # 0) => a.num_samples > 0
  /\ (a.temperature # 0) => (2 >= a.temperature /\ a.temperature >= 0)
  /\ Truthy(a.benchmark_yaml) =>
       (EndsWith(a.benchmark_yaml, DOT_YAML) \/ EndsWith(a.benchmark_yaml, YML))
  /\ Truthy(a.benchmark_yaml) # Truthy(a.benchmarks_directory)
  /\ Truthy(a.cloud_experiment_name) = Truthy(a.cloud_experiment_bucket)

\* The assertions of parse_args, in order; temperature in whole units.
ArgsAccepted(a, tdir) ==
  /\ (a.num_samples # 0) => a.num_samples > 0
  /\ (a.temperature # 0) => (2 >= a.temperature /\ a.temperature >= 0)
  /\ Truthy(a.benchmark_yaml) =>
       (EndsWith(a.benchmark_yaml, DOT_YAML) \/ EndsWith(a.benchmark_yaml, YML))
  /\ Truthy(a.benchmark_yaml) # Truthy(a.benchmarks_directory)
  /\ tdir
  /\ Truthy(a.cloud_experiment_name) = Truthy(a.cloud_experiment_bucket)

\* The command lines of the orchestrator runs explored.
RunArgs ==
  [num_samples : {2}, temperature : {1, 3},
   benchmark_yaml : {EMPTY, A_YAML}, benchmarks_directory : {EMPTY, DIR},
   cloud_experiment_name : {EMPTY}, cloud_experiment_bucket : {EMPTY},
   cloud_save_bucket : {EMPTY, SAVE_BUCKET},
   work_dir : {"results"}, delay : {-1, 0}]

Init ==
  /\ pc = "parse_args"
  /\ exit = "running"
  /\ args \in RunArgs
  /\ template_is_dir \in BOOLEAN
  /\ NUM_EXP \in 0..MaxNumExp
  /\ benchmark_yamls = <<>>
  /\ experiment_configs = <<>>
  /\ experiment_results = <<>>
  /\ experiment_tasks = <<>>
  /\ taskqueue = <<>>
  /\ running = {}
  /\ outqueue = <<>>
  /\ pipeline = <<>>
  /\ stdout = <<>>
  /\ completed = <<>>
  /\ uploads = <<>>
  /\ errlog = <<>>
  /\ save_calls = 0
  /\ save_i = 0
  /\ AgentIdle

\* main(): args = parse_args(); an AssertionError ends the process.
ParseArgs ==
  /\ pc = "parse_args"
  /\ IF ArgsAccepted(args, template_is_dir)
       THEN pc' = "get_experiment_configs" /\ exit' = exit
       ELSE pc' = "aborted" /\ exit' = "error"
  /\ UNCHANGED <<args, template_is_dir, NUM_EXP, benchmark_yamls,
                 experiment_configs, experiment_results, experiment_tasks,
                 taskqueue, running, outqueue, pipeline, stdout, completed,
                 uploads, errlog, save_calls, save_i>>
  /\ UNCHANGED agent_vars

\* ------------------------------------------------ get_experiment_configs
\* The list comprehension over os.listdir: the .yaml / yml files, in order.
BenchmarkYamls(listing) ==
  SelectSeq(listing,
            LAMBDA file : EndsWith(file, DOT_YAML) \/ EndsWith(file, YML))

\* get_experiment_configs, up to its for loop: the files to load are the one
\* of --benchmark-yaml, or those os.listdir finds, which raises when the
\* directory is missing; main() catches nothing.
ListBenchmarkYamls ==
  /\ pc = "get_experiment_configs"
  /\ IF Truthy(args.benchmark_yaml)
       THEN /\ benchmark_yamls' = <<args.benchmark_yaml>>
            /\ pc' = "from_yaml"
            /\ exit' = exit
       ELSE \E dir_exists \in BOOLEAN, listing \in SeqsUpTo(FileNames, MaxFiles) :
              IF dir_exists
                THEN /\ benchmark_yamls' = BenchmarkYamls(listing)
                     /\ pc' = "from_yaml"
                     /\ exit' = exit
                ELSE /\ benchmark_yamls' = <<>>
                     /\ pc' = "aborted"
                     /\ exit' = "error"
  /\ UNCHANGED <<args, template_is_dir, NUM_EXP, experiment_configs,
                 experiment_results, experiment_tasks, taskqueue, running,
                 outqueue, pipeline, stdout, completed, uploads, errlog,
                 save_calls, save_i>>
  /\ UNCHANGED agent_vars

\* One pass of `for benchmark_file in benchmark_yamls`:
\* experiment_configs.extend(Benchmark.from_yaml(benchmark_file)), where
\* from_yaml raises on a file it cannot load.
FromYaml ==
  /\ pc = "from_yaml"
  /\ benchmark_yamls # <<>>
  /\ \E loads \in BOOLEAN, benchmarks \in FileBenchmarks :
       /\ Len(experiment_configs) + Len(benchmarks) <= MaxConfigs
       /\ IF loads
            THEN /\ experiment_configs' = experiment_configs \o benchmarks
                 /\ benchmark_yamls' = Tail(benchmark_yamls)
                 /\ UNCHANGED <<pc, exit>>
            ELSE /\ pc' = "aborted"
                 /\ exit' = "error"
                 /\ benchmark_yamls' = <<>>
                 /\ UNCHANGED experiment_configs
  /\ UNCHANGED <<args, template_is_dir, NUM_EXP, experiment_results,
                 experiment_tasks, taskqueue, running, outqueue, pipeline,
                 stdout, completed, uploads, errlog, save_calls, save_i>>
  /\ UNCHANGED agent_vars

\* The for loop is over: get_experiment_configs returns one config per
\* benchmark, and main() sets experiment_results = [].
ConfigsDone ==
  /\ pc = "from_yaml"
  /\ benchmark_yamls = <<>>
  /\ pc' = "run"
  /\ pipeline' = [i \in 1..Len(experiment_configs) |-> NoOutcome]
  /\ UNCHANGED <<exit, args, template_is_dir, NUM_EXP, benchmark_yamls,
                 experiment_configs, experiment_results, experiment_tasks,
                 taskqueue, running, outqueue, stdout, completed, uploads,
                 errlog, save_calls, save_i>>
  /\ UNCHANGED agent_vars

\* ---------------------------------------------------------- run_experiments
Result(benchmark, result) == [benchmark |-> benchmark, result |-> result]

\* os.path.join(args.work_dir, f'output-{benchmark.id}')
WorkDir(a, benchmark) == <<a.work_dir, "output-" \o benchmark.id>>

\* run_one_experiment.run(): the AggregatedResult of a run whose best sample
\* has coverage diff cov; the sample is a file of the work directory.
AggregatedResult(work_dirs, cov) ==
  [type |-> "AggregatedResult",
   max_line_coverage_diff |-> cov,
   max_coverage_diff_sample |->
     [dir |-> work_dirs, stem |-> "01", ext |-> ".cc"]]

Str(text) == [type |-> "str", text |-> text]

\* run_experiments with the failure text reduced to str(e)
run_experiments_BareMessage(benchmark, a, outcome) ==
  IF outcome.kind = "raise"
    THEN Result(benchmark, Str(outcome.e))
    ELSE Result(benchmark,
                AggregatedResult(WorkDir(a, benchmark), outcome.cov))

\* run_experiments(benchmark, args) when its body does `outcome`: the try
\* covers WorkDirs(), LLM.setup() and run(); except Exception builds the
\* failure text.
run_experiments(benchmark, a, outcome) ==
  IF outcome.kind = "raise"
    THEN Result(benchmark,
                Str("Exception while running experiment: " \o outcome.e))
    ELSE Result(benchmark,
                AggregatedResult(WorkDir(a, benchmark), outcome.cov))

\* _print_experiment_result(result)
_print_experiment_result(result) ==
  [report |-> "Finished benchmark",
   project |-> result.benchmark.project,
   function_signature |-> result.benchmark.function_signature,
   result |-> result.result]

\* apply_async without its callback
callback_None(result) == <<>>

\* apply_async(..., callback=_print_experiment_result): what the pool calls
\* with a task's result.
callback(result) == <<_print_experiment_result(result)>>

\* main() going on as soon as it has one result
AllCollected_AnyResult(results, n) == Len(results) >= 1 \/ n = 0

\* Whether main() has a result for each of its n configs.
AllCollected(results, n) == Len(results) = n

\* main(), NUM_EXP == 1: one pass of the for loop, in the calling process.
SeqRun ==
  /\ pc = "run"
  /\ NUM_EXP = 1
  /\ ~AllCollected(experiment_results, N)
  /\ \E outcome \in Outcomes :
       LET i == Len(experiment_results) + 1
           result == run_experiments(experiment_configs[i], args, outcome)
       IN  /\ pipeline' = [pipeline EXCEPT ![i] = outcome]
           /\ experiment_results' = Append(experiment_results, result)
           /\ stdout' = Append(stdout, _print_experiment_result(result))
           /\ completed' = Append(completed, i)
  /\ UNCHANGED <<pc, exit, args, template_is_dir, NUM_EXP, benchmark_yamls,
                 experiment_configs, experiment_tasks, taskqueue, running,
                 outqueue, uploads, errlog, save_calls, save_i>>
  /\ UNCHANGED agent_vars

\* main(), NUM_EXP == 1: the for loop is over.
SeqDone ==
  /\ pc = "run"
  /\ NUM_EXP = 1
  /\ AllCollected(experiment_results, N)
  /\ pc' = "report"
  /\ UNCHANGED <<exit, args, template_is_dir, NUM_EXP, benchmark_yamls,
                 experiment_configs, experiment_results, experiment_tasks,
                 taskqueue, running, outqueue, pipeline, stdout, completed,
                 uploads, errlog, save_calls, save_i>>
  /\ UNCHANGED agent_vars

\* -------------------------------------------------------------- the pool
\* with Pool(NUM_EXP) as p: Pool raises ValueError for fewer than 1 process.
PoolCreate ==
  /\ pc = "run"
  /\ NUM_EXP # 1
  /\ IF NUM_EXP < 1
       THEN pc' = "aborted" /\ exit' = "error"
       ELSE pc' = "submit" /\ exit' = exit
  /\ UNCHANGED <<args, template_is_dir, NUM_EXP, benchmark_yamls,
                 experiment_configs, experiment_results, experiment_tasks,
                 taskqueue, running, outqueue, pipeline, stdout, completed,
                 uploads, errlog, save_calls, save_i>>
  /\ UNCHANGED agent_vars

PoolAlive == pc \in {"submit", "gather"}

\* Pool.__exit__: terminate() stops the workers and drops what is queued.
Terminated == {}

\* One pass of the submission loop: apply_async, append the task, then
\* time.sleep(args.delay), which raises ValueError for a negative delay; the
\* exception leaves the with block, which terminates the pool.
Submit ==
  /\ pc = "submit"
  /\ Len(experiment_tasks) < N
  /\ LET i == Len(experiment_tasks) + 1
     IN  /\ experiment_tasks' = Append(experiment_tasks, [ready |-> FALSE])
         /\ IF args.delay < 0
              THEN /\ pc' = "aborted"
                   /\ exit' = "error"
                   /\ running' = Terminated
                   /\ taskqueue' = <<>>
              ELSE /\ pc' = pc
                   /\ exit' = exit
                   /\ running' = running
                   /\ taskqueue' = Append(taskqueue, i)
  /\ UNCHANGED <<args, template_is_dir, NUM_EXP, benchmark_yamls,
                 experiment_configs, experiment_results, outqueue, pipeline,
                 stdout, completed, uploads, errlog, save_calls, save_i>>
  /\ UNCHANGED agent_vars

\* The submission loop is over; main() goes on to the list of task.get().
SubmitDone ==
  /\ pc = "submit"
  /\ Len(experiment_tasks) = N
  /\ pc' = "gather"
  /\ UNCHANGED <<exit, args, template_is_dir, NUM_EXP, benchmark_yamls,
                 experiment_configs, experiment_results, experiment_tasks,
                 taskqueue, running, outqueue, pipeline, stdout, completed,
                 uploads, errlog, save_calls, save_i>>
  /\ UNCHANGED agent_vars

\* The job an idle worker takes: the oldest one queued.
NextJob(queue) == Head(queue)

\* A pool that keeps one worker busy at most
IdleWorker_Single == Cardinality(running) < 1

\* A pool that starts a job whenever one is queued
IdleWorker_Always == TRUE

\* One of the NUM_EXP worker processes is idle.
IdleWorker == Cardinality(running) < NUM_EXP

\* An idle worker process takes a job and enters run_experiments.
WorkerStart ==
  /\ PoolAlive
  /\ IdleWorker
  /\ taskqueue # <<>>
  /\ running' = running \cup {NextJob(taskqueue)}
  /\ taskqueue' = Tail(taskqueue)
  /\ UNCHANGED <<pc, exit, args, template_is_dir, NUM_EXP, benchmark_yamls,
                 experiment_configs, experiment_results, experiment_tasks,
                 outqueue, pipeline, stdout, completed, uploads, errlog,
                 save_calls, save_i>>
  /\ UNCHANGED agent_vars

\* The run_experiments of job returns in its worker; the Result goes to the
\* outqueue and the worker is idle again.
WorkerFinish(job) ==
  /\ PoolAlive
  /\ job \in running
  /\ \E outcome \in Outcomes :
       LET result == run_experiments(experiment_configs[job], args, outcome)
       IN  /\ pipeline' = [pipeline EXCEPT ![job] = outcome]
           /\ outqueue' = Append(outqueue, [job |-> job, value |-> result])
           /\ completed' = Append(completed, job)
  /\ running' = running \ {job}
  /\ UNCHANGED <<pc, exit, args, template_is_dir, NUM_EXP, benchmark_yamls,
                 experiment_configs, experiment_results, experiment_tasks,
                 taskqueue, stdout, uploads, errlog, save_calls, save_i>>
  /\ UNCHANGED agent_vars

\* The pool's result handler, a thread of the calling process: it takes the
\* next result, calls the callback, then marks the AsyncResult ready.
HandleResult ==
  /\ PoolAlive
  /\ outqueue # <<>>
  /\ LET r == Head(outqueue)
     IN  /\ stdout' = stdout \o callback(r.value)
         /\ experiment_tasks' =
              [experiment_tasks EXCEPT
                 ![r.job] = [ready |-> TRUE, value |-> r.value]]
  /\ outqueue' = Tail(outqueue)
  /\ UNCHANGED <<pc, exit, args, template_is_dir, NUM_EXP, benchmark_yamls,
                 experiment_configs, experiment_results, taskqueue, running,
                 pipeline, completed, uploads, errlog, save_calls, save_i>>
  /\ UNCHANGED agent_vars

\* Gathering the tasks in the order they completed in
TaskAt_CompletionOrder(k) == completed[k]

\* Gathering the tasks from the last submitted to the first
TaskAt_Reversed(k) == Len(experiment_tasks) + 1 - k

\* The task whose get() gives the k-th element of the list comprehension
\* [task.get() for task in experiment_tasks]: the k-th submitted.
TaskAt(k) == k

\* experiment_results = [task.get() for task in experiment_tasks]: each get()
\* blocks until its task is ready, so the list is there once every task is;
\* the with block then ends and the pool terminates.
Gather ==
  /\ pc = "gather"
  /\ \A i \in 1..Len(experiment_tasks) : experiment_tasks[i].ready
  /\ experiment_results' =
       [k \in 1..Len(experiment_tasks) |-> experiment_tasks[TaskAt(k)].value]
  /\ pc' = "report"
  /\ running' = Terminated
  /\ UNCHANGED <<exit, args, template_is_dir, NUM_EXP, benchmark_yamls,
                 experiment_configs, experiment_tasks, taskqueue, outqueue,
                 pipeline, stdout, completed, uploads, errlog, save_calls,
                 save_i>>
  /\ UNCHANGED agent_vars

\* ------------------------------------------------------------- reporting
\* A final report of the aggregated results only
_print_experiment_results_SkipFailures(results) ==
  <<[report |-> "FINAL RESULTS"]>> \o
  [i \in 1..Len(SelectSeq(results,
                          LAMBDA r : r.result.type = "AggregatedResult")) |->
     LET r == SelectSeq(results,
                        LAMBDA x : x.result.type = "AggregatedResult")[i]
     IN  [report |-> "final",
          project |-> r.benchmark.project,
          function_signature |-> r.benchmark.function_signature,
          result |-> r.result]]

\* _print_experiment_results(results): the header, then one entry per result.
_print_experiment_results(results) ==
  <<[report |-> "FINAL RESULTS"]>> \o
  [i \in 1..Len(results) |->
     [report |-> "final",
      project |-> results[i].benchmark.project,
      function_signature |-> results[i].benchmark.function_signature,
      result |-> results[i].result]]

\* main(): the final report, then the test of args.cloud_save_bucket.
PrintResults ==
  /\ pc = "report"
  /\ stdout' = stdout \o _print_experiment_results(experiment_results)
  /\ IF Truthy(args.cloud_save_bucket)
       THEN pc' = "save" /\ exit' = exit
       ELSE pc' = "done" /\ exit' = "ok"
  /\ UNCHANGED <<args, template_is_dir, NUM_EXP, benchmark_yamls,
                 experiment_configs, experiment_results, experiment_tasks,
                 taskqueue, running, outqueue, pipeline, completed, uploads,
                 errlog, save_calls, save_i>>
  /\ UNCHANGED agent_vars

\* ------------------------------------------------------- _save_best_target
\* isinstance(result.result, run_one_experiment.AggregatedResult)
IsAggregatedResult(r) == r.type = "AggregatedResult"

\* if best_cov >= 0
WorthSaving_NonNegative(best_cov) == best_cov >= 0

\* if best_cov > 0
WorthSaving(best_cov) == best_cov > 0

\* exp_name, or the date and the host name when it is empty
ExpName(exp_name) == IF Truthy(exp_name) THEN exp_name ELSE <<"date-host">>

\* save_name, by its parts; ext = os.path.splitext(best_target)[1]
SaveName(result, exp_name, rand_id) ==
  [prefix |-> "llm_generated_targets",
   project |-> result.benchmark.project,
   function_name |-> result.benchmark.function_name,
   best_cov |-> result.result.max_line_coverage_diff,
   exp_name |-> exp_name,
   rand_id |-> rand_id,
   ext |-> result.result.max_coverage_diff_sample.ext]

\* _save_best_target called outside any try: the exception ends main()
SaveFailed_Uncaught ==
  /\ pc' = "aborted"
  /\ exit' = "error"
  /\ errlog' = errlog
  /\ save_i' = save_i

\* An error boundary around each result: log, then go on with the next one
SaveFailed_PerResult ==
  /\ pc' = "save_loop"
  /\ exit' = exit
  /\ errlog' = Append(errlog, "Failed to upload best targets")
  /\ save_i' = save_i + 1

\* main(): except Exception as e: logging.error(...); main() then returns,
\* the loop of _save_best_target left where it was.
SaveFailed ==
  /\ pc' = "done"
  /\ exit' = "ok"
  /\ errlog' = Append(errlog, "Failed to upload best targets")
  /\ save_i' = save_i

\* main() calls _save_best_target inside try; storage.Client() and
\* bucket() come first and may raise.
SaveBegin ==
  /\ pc = "save"
  /\ save_calls' = save_calls + 1
  /\ \E client_ok \in BOOLEAN :
       IF client_ok
         THEN /\ pc' = "save_loop"
              /\ save_i' = 1
              /\ UNCHANGED <<exit, errlog>>
         ELSE SaveFailed
  /\ UNCHANGED <<args, template_is_dir, NUM_EXP, benchmark_yamls,
                 experiment_configs, experiment_results, experiment_tasks,
                 taskqueue, running, outqueue, pipeline, stdout, completed,
                 uploads>>
  /\ UNCHANGED agent_vars

\* blob.upload_from_filename(best_target) of blob save_name, when it succeeds
Upload(result, a) ==
  [blob |-> SaveName(result, ExpName(a.cloud_experiment_name), "rand"),
   filename |-> result.result.max_coverage_diff_sample,
   bucket |-> a.cloud_save_bucket,
   process |-> "MainProcess"]

\* One pass of `for result in results`: upload_from_filename may raise, which
\* ends _save_best_target.
SaveTarget ==
  /\ pc = "save_loop"
  /\ save_i <= Len(experiment_results)
  /\ LET result == experiment_results[save_i]
     IN  IF IsAggregatedResult(result.result)
            /\ WorthSaving(result.result.max_line_coverage_diff)
           THEN \E upload_ok \in BOOLEAN :
                  IF upload_ok
                    THEN /\ uploads' = Append(uploads, Upload(result, args))
                         /\ save_i' = save_i + 1
                         /\ UNCHANGED <<pc, exit, errlog>>
                    ELSE /\ SaveFailed
                         /\ UNCHANGED uploads
           ELSE /\ save_i' = save_i + 1
                /\ UNCHANGED <<pc, exit, errlog, uploads>>
  /\ UNCHANGED <<args, template_is_dir, NUM_EXP, benchmark_yamls,
                 experiment_configs, experiment_results, experiment_tasks,
                 taskqueue, running, outqueue, pipeline, stdout, completed,
                 save_calls>>
  /\ UNCHANGED agent_vars

\* The loop is over: _save_best_target returns and main() with it.
SaveDone ==
  /\ pc = "save_loop"
  /\ save_i > Len(experiment_results)
  /\ pc' = "done"
  /\ exit' = "ok"
  /\ UNCHANGED <<args, template_is_dir, NUM_EXP, benchmark_yamls,
                 experiment_configs, experiment_results, experiment_tasks,
                 taskqueue, running, outqueue, pipeline, stdout, completed,
                 uploads, errlog, save_calls, save_i>>
  /\ UNCHANGED agent_vars

Next ==
  \/ ParseArgs
  \/ ListBenchmarkYamls
  \/ FromYaml
  \/ ConfigsDone
  \/ SeqRun
  \/ SeqDone
  \/ PoolCreate
  \/ Submit
  \/ SubmitDone
  \/ WorkerStart
  \/ \E job \in running : WorkerFinish(job)
  \/ HandleResult
  \/ Gather
  \/ PrintResults
  \/ SaveBegin
  \/ SaveTarget
  \/ SaveDone

Spec == Init /\ [][Next]_vars

\* ------------------------------------------------------------- scheduling
\* The command lines of the runs whose scheduling is explored: valid, with a
\* save bucket, the benchmarks from a file or a directory.
PoolArgs ==
  [num_samples : {2}, temperature : {1},
   benchmark_yaml : {EMPTY, A_YAML}, benchmarks_directory : {EMPTY, DIR},
   cloud_experiment_name : {EMPTY}, cloud_experiment_bucket : {EMPTY},
   cloud_save_bucket : {SAVE_BUCKET},
   work_dir : {"results"}, delay : {-1, 0}]

PoolInit ==
  /\ pc = "parse_args"
  /\ exit = "running"
  /\ args \in PoolArgs
  /\ template_is_dir = TRUE
  /\ NUM_EXP \in 1..MaxNumExp
  /\ benchmark_yamls = <<>>
  /\ experiment_configs = <<>>
  /\ experiment_results = <<>>
  /\ experiment_tasks = <<>>
  /\ taskqueue = <<>>
  /\ running = {}
  /\ outqueue = <<>>
  /\ pipeline = <<>>
  /\ stdout = <<>>
  /\ completed = <<>>
  /\ uploads = <<>>
  /\ errlog = <<>>
  /\ save_calls = 0
  /\ save_i = 0
  /\ AgentIdle

\* While several experiments run, one of them returns: no two hang together.
OneOfSeveralFinishes ==
  /\ Cardinality(running) >= 2
  /\ \E job \in running : WorkerFinish(job)

\* The pool at work when at most one experiment hangs: the submission loop
\* goes on, an idle worker takes the next job, the result handler takes the
\* next result, and of several running experiments one returns.
HungSpec ==
  /\ PoolInit
  /\ [][Next]_vars
  /\ WF_vars(Submit)
  /\ WF_vars(SubmitDone)
  /\ WF_vars(WorkerStart)
  /\ WF_vars(HandleResult)
  /\ WF_vars(OneOfSeveralFinishes)

\* ------------------------------------------------- the command lines at large
EXP_NAME == <<"n">>
EXP_BUCKET == <<"e">>

\* LLM_NUM_EXP left unset: os.getenv's default.
DefaultNumExp == 2

\* Command lines with every argument parse_args validates given a valid and
\* an invalid value, alone and together.
ValidationArgs ==
  [num_samples : {-1, 0, 2}, temperature : {-1, 0, 2, 3},
   benchmark_yaml : {EMPTY, A_YAML, C_TXT},
   benchmarks_directory : {EMPTY, DIR},
   cloud_experiment_name : {EMPTY, EXP_NAME},
   cloud_experiment_bucket : {EMPTY, EXP_BUCKET},
   cloud_save_bucket : {SAVE_BUCKET},
   work_dir : {"results"}, delay : {0}]

\* The run of any of these command lines, sequential or with the default
\* pool.
ArgsInit ==
  /\ pc = "parse_args"
  /\ exit = "running"
  /\ args \in ValidationArgs
  /\ template_is_dir \in BOOLEAN
  /\ NUM_EXP \in {1, DefaultNumExp}
  /\ benchmark_yamls = <<>>
  /\ experiment_configs = <<>>
  /\ experiment_results = <<>>
  /\ experiment_tasks = <<>>
  /\ taskqueue = <<>>
  /\ running = {}
  /\ outqueue = <<>>
  /\ pipeline = <<>>
  /\ stdout = <<>>
  /\ completed = <<>>
  /\ uploads = <<>>
  /\ errlog = <<>>
  /\ save_calls = 0
  /\ save_i = 0
  /\ AgentIdle

ArgsSpec == ArgsInit /\ [][Next]_vars

\* ================================================================ BaseAgent
\* Texts are sequences of one-character strings. A reply or a code block is
\* made of at most MaxPieces pieces.
MaxPieces == 4    \* most pieces a reply or a code block is made of
MaxRounds == 2    \* largest round number

RECURSIVE Flatten(_)
Flatten(pieces) ==
  IF pieces = <<>> THEN <<>> ELSE Head(pieces) \o Flatten(Tail(pieces))

Texts(pieces) == {Flatten(p) : p \in SeqsUpTo(pieces, MaxPieces)}

BASH == <<"b", "a", "s", "h">>

\* rf'<{tag}>' and rf'</{tag}>' as the f-string writes them
OpenTag(t) == <<"<">> \o t \o <<">">>
CloseTag(t) == <<"<", "/">> \o t \o <<">">>

\* The tag names _parse_tag is called with: 'bash', and names with a
\* character that re reads as an operator.
Tags == {BASH, <<"b", ".", "s", "h">>, <<"(">>}

\* The replies of the LLM.
Replies ==
  Texts({OpenTag(BASH), CloseTag(BASH), <<" ">>, <<"\n">>, <<"l", "s">>})

\* The back-quote character, by name.
BACKQUOTE == "backquote"

\* The three back-quotes of a markdown fence.
FENCE == <<BACKQUOTE, BACKQUOTE, BACKQUOTE>>

\* The code blocks given to _filter_code.
CodeBlocks == Texts({FENCE, <<"x">>, <<" ">>, <<"\n">>})

Whitespace == {" ", "\n"}

\* str.strip()
Strip(s) ==
  LET solid == {i \in 1..Len(s) : s[i] \notin Whitespace}
  IN  IF solid = {} THEN <<>>
      ELSE SubSeq(s, CHOOSE i \in solid : \A j \in solid : i <= j,
                     CHOOSE i \in solid : \A j \in solid : i >= j)

\* str.startswith
StartsWith(s, prefix) ==
  /\ Len(s) >= Len(prefix)
  /\ SubSeq(s, 1, Len(prefix)) = prefix

\* ---------------------------------------------------------------- _parse_tag
\* re compiles the pattern the f-string builds: a '(' of the tag opens a
\* group that nothing closes, which is re.error.
Compiles(t) == \A k \in 1..Len(t) : t[k] # "("

\* Whether pattern character p matches text character c: a '.' of the tag is
\* any character (re.DOTALL), anything else is itself.
CharMatches(p, c, from_tag) == (from_tag /\ p = ".") \/ p = c

\* Whether the pattern <tag> or </tag>, whose characters lead..lead+Len(t)-1
\* come from the tag, matches the text at position i.
MatchesAt(pattern, lead, t, text, i) ==
  /\ i + Len(pattern) - 1 <= Len(text)
  /\ \A k \in 1..Len(pattern) :
       CharMatches(pattern[k], text[i + k - 1],
                   k >= lead /\ k < lead + Len(t))

OpensAt(t, text, i) == MatchesAt(OpenTag(t), 2, t, text, i)
ClosesAt(t, text, j) == MatchesAt(CloseTag(t), 3, t, text, j)

\* re.search(rf'<{tag}>(.*?)</{tag}>', response, re.DOTALL): the leftmost
\* position a match starts at, then the nearest closing tag; its group(1).
Search(text, t) ==
  LET ends(i) == {j \in (i + Len(OpenTag(t)))..Len(text) : ClosesAt(t, text, j)}
      starts == {i \in 1..Len(text) : OpensAt(t, text, i) /\ ends(i) # {}}
  IN  IF starts = {} THEN [match |-> FALSE]
      ELSE LET i == CHOOSE x \in starts : \A y \in starts : x <= y
               j == CHOOSE x \in ends(i) : \A y \in ends(i) : x <= y
           IN  [match |-> TRUE,
                group1 |-> SubSeq(text, i + Len(OpenTag(t)), j - 1)]

Return(value) == [kind |-> "return", value |-> value]
Raise(e) == [kind |-> "raise", e |-> e]

\* _parse_tag returning group(1) as it is
_parse_tag_NoStrip(resp, t) ==
  IF ~Compiles(t) THEN Raise("re.error")
  ELSE LET m == Search(resp, t)
       IN  Return(IF m.match THEN m.group1 ELSE <<>>)

\* _parse_tag(response, tag)
_parse_tag(resp, t) ==
  IF ~Compiles(t) THEN Raise("re.error")
  ELSE LET m == Search(resp, t)
       IN  Return(IF m.match THEN Strip(m.group1) ELSE <<>>)

\* -------------------------------------------------------------- _filter_code
RECURSIVE SplitLines(_)
\* str.splitlines(): the lines without their line breaks; a line break at
\* the end of the text starts no line.
SplitLines(s) ==
  IF s = <<>> THEN <<>>
  ELSE LET breaks == {i \in 1..Len(s) : s[i] = "\n"}
       IN  IF breaks = {} THEN <<s>>
           ELSE LET k == CHOOSE i \in breaks : \A j \in breaks : i <= j
                IN  <<SubSeq(s, 1, k - 1)>> \o
                    SplitLines(SubSeq(s, k + 1, Len(s)))

RECURSIVE Join(_)
\* '\n'.join(lines)
Join(lines) ==
  IF lines = <<>> THEN <<>>
  ELSE IF Len(lines) = 1 THEN lines[1]
  ELSE lines[1] \o <<"\n">> \o Join(Tail(lines))

\* The lines _filter_code keeps.
filtered_lines(block) ==
  SelectSeq(SplitLines(block), LAMBDA line : ~StartsWith(Strip(line), FENCE))

\* _filter_code(raw_code_block)
_filter_code(block) == Join(filtered_lines(block))

\* ------------------------------------------- _container_handle_bash_command
\* What tool.execute(command) may return: a CompletedProcess of the
\* command's invocation.
Processes(command) ==
  [args : {command}, returncode : {0, 1},
   stdout : {"", "out"}, stderr : {"", "err"}]

\* _format_bash_execution_result without the stderr of a clean run
_format_bash_execution_result_QuietStderr(process) ==
  <<"<bash>\n", process.args, "\n</bash>\n",
    "<return code>\n", process.returncode, "\n</return code>\n",
    "<stdout>\n", process.stdout, "\n</stdout>\n">> \o
  (IF process.stderr = "" THEN <<>>
   ELSE <<"<stderr>\n", process.stderr, "\n</stderr>\n">>)

\* _format_bash_execution_result(process): the f-string, part by part.
_format_bash_execution_result(process) ==
  <<"<bash>\n", process.args, "\n</bash>\n",
    "<return code>\n", process.returncode, "\n</return code>\n",
    "<stdout>\n", process.stdout, "\n</stdout>\n",
    "<stderr>\n", process.stderr, "\n</stderr>\n">>

\* tool.tutorial()
Tutorial == "tutorial"

\* The prompt text of a round without a command.
NoCommandText ==
  <<"No bash command received, Please follow the interaction protocols:\n",
    Tutorial>>

\* DefaultTemplateBuilder(self.llm, None, initial=prompt_text).build([])
Prompt(prompt_text) == [type |-> "Prompt", initial |-> prompt_text]

\* The orchestrator does not run.
NoRun ==
  /\ pc = "none"
  /\ exit = "running"
  /\ args = <<>>
  /\ template_is_dir = FALSE
  /\ NUM_EXP = 0
  /\ benchmark_yamls = <<>>
  /\ experiment_configs = <<>>
  /\ experiment_results = <<>>
  /\ experiment_tasks = <<>>
  /\ taskqueue = <<>>
  /\ running = {}
  /\ outqueue = <<>>
  /\ pipeline = <<>>
  /\ stdout = <<>>
  /\ completed = <<>>
  /\ uploads = <<>>
  /\ errlog = <<>>
  /\ save_calls = 0
  /\ save_i = 0

\* One call of a method of the agent, with its arguments.
AgentInit ==
  /\ NoRun
  /\ agent_pc = "call"
  /\ retval = <<>>
  /\ executed = <<>>
  /\ warnings = <<>>
  /\ \/ /\ op = "_parse_tag"
        /\ response \in Replies
        /\ tag \in Tags
        /\ raw_code_block = <<>>
        /\ cur_round = 0
     \/ /\ op = "_filter_code"
        /\ raw_code_block \in CodeBlocks
        /\ response = <<>>
        /\ tag = <<>>
        /\ cur_round = 0
     \/ /\ op = "_container_handle_bash_command"
        /\ response \in Replies
        /\ cur_round \in 1..MaxRounds
        /\ tag = <<>>
        /\ raw_code_block = <<>>

\* self._parse_tag(response, tag) returns or raises.
ParseTag ==
  /\ op = "_parse_tag"
  /\ agent_pc = "call"
  /\ LET r == _parse_tag(response, tag)
     IN  IF r.kind = "raise"
           THEN agent_pc' = "raised" /\ retval' = r.e
           ELSE agent_pc' = "returned" /\ retval' = r.value
  /\ UNCHANGED <<op, response, tag, raw_code_block, cur_round, executed,
                 warnings>>
  /\ UNCHANGED orch_vars

\* self._filter_code(raw_code_block) returns.
FilterCode ==
  /\ op = "_filter_code"
  /\ agent_pc = "call"
  /\ agent_pc' = "returned"
  /\ retval' = _filter_code(raw_code_block)
  /\ UNCHANGED <<op, response, tag, raw_code_block, cur_round, executed,
                 warnings>>
  /\ UNCHANGED orch_vars

\* self._container_handle_bash_command(cur_round, response, tool)
HandleBashCommand ==
  /\ op = "_container_handle_bash_command"
  /\ agent_pc = "call"
  /\ LET command == _parse_tag(response, BASH).value
     IN  IF Truthy(command)
           THEN \E process \in Processes(command) :
                  /\ executed' =
                       Append(executed,
                              [command |-> command, process |-> process])
                  /\ retval' = Prompt(_format_bash_execution_result(process))
                  /\ warnings' = warnings
           ELSE /\ warnings' =
                     Append(warnings,
                            [level |-> "WARNING",
                             msg |-> <<"ROUND ", cur_round,
                                       " No BASH command from LLM response: ",
                                       response>>])
                /\ retval' = Prompt(NoCommandText)
                /\ executed' = executed
  /\ agent_pc' = "returned"
  /\ UNCHANGED <<op, response, tag, raw_code_block, cur_round>>
  /\ UNCHANGED orch_vars

AgentNext ==
  \/ ParseTag
  \/ FilterCode
  \/ HandleBashCommand

AgentSpec == AgentInit /\ [][AgentNext]_vars

\* ================================================================ claims
\* main() has its result list: it is past the loop or the with block.
Settled == pc \in {"report", "save", "save_loop", "done"}

\* Every experiment has run to its end and nothing is in flight.
AllExperimentsOver ==
  /\ Len(experiment_results) = N
  /\ \A i \in 1..N : pipeline[i] # NoOutcome
  /\ taskqueue = <<>>
  /\ outqueue = <<>>
  /\ running = {}

\* C1: with NUM_EXP > 1, once main() has its result list, the list has one
\* result per config, and the i-th result is the one the pipeline of the i-th
\* submitted config produced, for that config's benchmark, whatever the
\* order the workers completed in.
C1_PoolResultsInSubmissionOrder ==
  (NUM_EXP > 1 /\ Settled) =>
    /\ Len(experiment_results) = N
    /\ \A i \in 1..N :
         /\ pipeline[i] # NoOutcome
         /\ experiment_results[i].benchmark = experiment_configs[i]
         /\ experiment_results[i] =
              run_experiments(experiment_configs[i], args, pipeline[i])

\* A pool run that ended, whose second job completed before the first and
\* with a different result.
C1_Witness ==
  /\ NUM_EXP > 1
  /\ pc = "done"
  /\ N >= 2
  /\ completed[1] = 2
  /\ experiment_results[1] # experiment_results[2]

\* C2: in a finished run, an experiment whose body raised has a Failure
\* result (a string) that is not empty and names its own benchmark, the run
\* did not abort, and every experiment whose pipeline returned has the
\* AggregatedResult it returned, for its own benchmark.
C2_FailureIsolated ==
  (Settled /\ \E i \in 1..N : pipeline[i].kind = "raise") =>
    /\ exit # "error"
    /\ Len(experiment_results) = N
    /\ \A i \in 1..N :
         /\ pipeline[i].kind = "raise" =>
              /\ experiment_results[i].benchmark = experiment_configs[i]
              /\ experiment_results[i].result.type = "str"
              /\ Len(experiment_results[i].result.text) > 0
         /\ pipeline[i].kind = "return" =>
              /\ experiment_results[i].benchmark = experiment_configs[i]
              /\ experiment_results[i].result.type = "AggregatedResult"
              /\ experiment_results[i].result.max_line_coverage_diff =
                   pipeline[i].cov

\* A finished run whose first experiment raised an exception with an empty
\* message and whose second one returned a result.
C2_Witness ==
  /\ pc = "done"
  /\ N >= 2
  /\ pipeline[1] = [kind |-> "raise", e |-> ""]
  /\ pipeline[2].kind = "return"
  /\ experiment_results[2].result.type = "AggregatedResult"

RECURSIVE SequentialResults(_)
\* The list the NUM_EXP == 1 loop builds for the first n configs when each
\* pipeline does what it did in this run.
SequentialResults(n) ==
  IF n = 0 THEN <<>>
  ELSE Append(SequentialResults(n - 1),
              run_experiments(experiment_configs[n], args, pipeline[n]))

\* C3: whatever NUM_EXP is, the result list main() ends with is the list the
\* sequential loop builds for the same configs and the same outcomes.
C3_SchedulingDoesNotChangeResults ==
  Settled =>
    /\ \A i \in 1..N : pipeline[i] # NoOutcome
    /\ experiment_results = SequentialResults(N)

\* A pool run of three configs that completed in the order 2, 3, 1, with a
\* failure and a result among them.
C3_Witness ==
  /\ NUM_EXP > 1
  /\ Settled
  /\ N = 3
  /\ completed = <<2, 3, 1>>
  /\ pipeline[1].kind = "raise"
  /\ pipeline[2].kind = "return"

\* The experiments promotion is meant for.
Eligible(i) == pipeline[i].kind = "return" /\ pipeline[i].cov > 0

\* C4: every upload is the best sample of an AggregatedResult of coverage
\* diff > 0; and when promotion ran to its end without an error, the uploads
\* are those samples, one upload per such result.
C4_OnlyPositiveDiffUploaded ==
  /\ \A k \in 1..Len(uploads) :
       /\ uploads[k].blob.best_cov > 0
       /\ \E i \in 1..N :
            /\ i <= Len(experiment_results)
            /\ Eligible(i)
            /\ uploads[k].filename =
                 experiment_results[i].result.max_coverage_diff_sample
            /\ uploads[k].blob.function_name =
                 experiment_configs[i].function_name
  /\ (pc = "done" /\ Truthy(args.cloud_save_bucket) /\ errlog = <<>>) =>
       /\ Len(uploads) = Cardinality({i \in 1..N : Eligible(i)})
       /\ {uploads[k].filename : k \in 1..Len(uploads)} =
            {experiment_results[i].result.max_coverage_diff_sample :
               i \in {j \in 1..N : Eligible(j)}}

\* Promotion ran without error over results of one project with coverage
\* diffs 0 and 5, and a failure: one upload.
C4_Witness ==
  /\ pc = "done"
  /\ Truthy(args.cloud_save_bucket)
  /\ errlog = <<>>
  /\ N = 3
  /\ \E i, j, k \in 1..N :
       /\ pipeline[i] = [kind |-> "return", cov |-> 0]
       /\ pipeline[j] = [kind |-> "return", cov |-> 5]
       /\ pipeline[k].kind = "raise"
       /\ experiment_configs[i].project = experiment_configs[j].project
  /\ Len(uploads) = 1

\* C5: main() calls _save_best_target at most once, and once in a run with a
\* save bucket that reaches its end; whenever the call has been made or a
\* blob uploaded, every experiment is over and collected, no worker runs and
\* nothing is queued; every upload is made by the calling process.
C5_PromotionOnceAfterAll ==
  /\ save_calls <= 1
  /\ (pc = "done" /\ Truthy(args.cloud_save_bucket)) => save_calls = 1
  /\ ~Truthy(args.cloud_save_bucket) => (save_calls = 0 /\ uploads = <<>>)
  /\ (save_calls > 0 \/ uploads # <<>> \/ pc \in {"save", "save_loop"}) =>
       AllExperimentsOver
  /\ \A k \in 1..Len(uploads) : uploads[k].process = "MainProcess"

\* Promotion at work after a pool run of several experiments.
C5_Witness ==
  /\ pc = "save_loop"
  /\ NUM_EXP > 1
  /\ N >= 2
  /\ uploads # <<>>
  /\ completed[1] # 1

\* What C6 asks of a step taken while main() is in the promotion.
PromotionStepHarmless ==
  pc \in {"save", "save_loop"} =>
    /\ experiment_results' = experiment_results
    /\ exit' # "error"
    /\ pc' \in {"save_loop", "done"}
    /\ errlog' # errlog =>
         /\ errlog' = Append(errlog, "Failed to upload best targets")
         /\ pc' = "done"
         /\ exit' = "ok"

\* C6: no step of promotion, whether it uploads, skips or meets an error,
\* changes the result list or ends the process in error; a step that logs an
\* upload error is the last one, and main() then returns normally.
C6_UploadErrorsCaught == [][PromotionStepHarmless]_vars

\* An upload failed after an earlier one had succeeded; main() returned
\* normally with its results.
C6_Witness ==
  /\ pc = "done"
  /\ exit = "ok"
  /\ errlog # <<>>
  /\ uploads # <<>>
  /\ N >= 2
  /\ experiment_results = SequentialResults(N)

\* C7: a run whose arguments parse_args accepted never aborts: it ends with
\* the complete result list and the final report.
C7_NoAbortAfterValidation ==
  pc = "aborted" => ~ArgsAccepted(args, template_is_dir)

\* The lines of the final report in stdout.
FinalAt == {k \in 1..Len(stdout) : stdout[k].report = "FINAL RESULTS"}

\* C8: the final report is printed once, by the time main() is past it; when
\* it is in stdout every experiment is over, and it is the last thing
\* printed: the header, then one entry per config, the i-th for the i-th
\* config's benchmark with the result (aggregate or failure text) of that
\* config's pipeline.
C8_FinalReportInSubmissionOrder ==
  /\ Cardinality(FinalAt) <= 1
  /\ pc \in {"save", "save_loop", "done"} => FinalAt # {}
  /\ FinalAt # {} =>
       LET k == CHOOSE x \in FinalAt : TRUE
       IN  /\ AllExperimentsOver
           /\ Len(stdout) = k + N
           /\ \A i \in 1..N :
                stdout[k + i] =
                  [report |-> "final",
                   project |-> experiment_configs[i].project,
                   function_signature |->
                     experiment_configs[i].function_signature,
                   result |->
                     run_experiments(experiment_configs[i], args,
                                     pipeline[i]).result]

\* The final report of a pool run of three experiments of different
\* outcomes that completed in the order 2, 1, 3.
C8_Witness ==
  /\ pc = "done"
  /\ NUM_EXP > 1
  /\ N = 3
  /\ completed = <<2, 1, 3>>
  /\ pipeline[1].kind = "raise"
  /\ pipeline[2].kind = "return"
  /\ FinalAt # {}

\* The streaming reports in stdout, in order.
StreamLines ==
  SelectSeq(stdout, LAMBDA line : line.report = "Finished benchmark")

\* How many completed experiments the calling process has been told of.
Handled == Len(completed) - Len(outqueue)

\* C9: the streaming reports are, in order, those of the experiments in the
\* order they completed, one each; the only completed experiments without
\* their report yet are those whose result is still on its way to the
\* result handler; a result main() has collected has been reported; and all
\* N streaming reports precede the final report.
C9_StreamingReportPerCompletion ==
  /\ \A a, b \in 1..Len(completed) : a # b => completed[a] # completed[b]
  /\ Handled >= 0
  /\ Len(StreamLines) = Handled
  /\ \A k \in 1..Handled :
       StreamLines[k] =
         _print_experiment_result(
           run_experiments(experiment_configs[completed[k]], args,
                           pipeline[completed[k]]))
  /\ \A k \in 1..Len(outqueue) : outqueue[k].job = completed[Handled + k]
  /\ \A i \in 1..Len(experiment_results) :
       \E k \in 1..Handled : completed[k] = i
  /\ FinalAt # {} =>
       /\ Handled = N
       /\ \A k \in 1..N : stdout[k].report = "Finished benchmark"

\* The second job's report is out while the first job, submitted earlier,
\* still runs and a third is queued or running.
C9_Witness ==
  /\ NUM_EXP > 1
  /\ N = 3
  /\ completed = <<2>>
  /\ Len(StreamLines) = 1
  /\ 1 \in running
  /\ pipeline[1] = NoOutcome
  /\ experiment_results = <<>>

\* C10: two workers that run experiments at the same time run them in
\* different work directories.
C10_ExclusiveWorkDirs ==
  \A i, j \in running :
    i # j =>
      WorkDir(args, experiment_configs[i]) # WorkDir(args, experiment_configs[j])

\* The command lines C11 lists: both benchmark sources or neither, a cloud
\* experiment name without its bucket or the bucket without the name, a
\* temperature outside [0, 2], a template directory that does not exist.
Rejectable(a, tdir) ==
  \/ Truthy(a.benchmark_yaml) /\ Truthy(a.benchmarks_directory)
  \/ ~Truthy(a.benchmark_yaml) /\ ~Truthy(a.benchmarks_directory)
  \/ Truthy(a.cloud_experiment_name) /\ ~Truthy(a.cloud_experiment_bucket)
  \/ ~Truthy(a.cloud_experiment_name) /\ Truthy(a.cloud_experiment_bucket)
  \/ a.temperature < 0
  \/ a.temperature > 2
  \/ ~tdir

\* No config was expanded, no experiment submitted or run, nothing printed,
\* no promotion started.
NothingScheduled ==
  /\ benchmark_yamls = <<>>
  /\ experiment_configs = <<>>
  /\ experiment_tasks = <<>>
  /\ taskqueue = <<>>
  /\ running = {}
  /\ outqueue = <<>>
  /\ pipeline = <<>>
  /\ completed = <<>>
  /\ experiment_results = <<>>
  /\ stdout = <<>>
  /\ uploads = <<>>
  /\ save_calls = 0

C12_NonPositiveSamplesRejected ==
  args.num_samples <= 0 =>
    /\ pc \in {"parse_args", "aborted"}
    /\ NothingScheduled

\* Whether the characters of piece stand in text from position i on.
LiteralAt(piece, text, i) ==
  /\ i + Len(piece) - 1 <= Len(text)
  /\ SubSeq(text, i, i + Len(piece) - 1) = piece

\* The first well-formed block of tag t in text: the leftmost <t> that a
\* </t> follows, up to the nearest such </t>; its inner content.
FirstBlock(text, t) ==
  LET closes(i) ==
        {j \in (i + Len(OpenTag(t)))..Len(text) : LiteralAt(CloseTag(t), text, j)}
      opens ==
        {i \in 1..Len(text) : LiteralAt(OpenTag(t), text, i) /\ closes(i) # {}}
  IN  IF opens = {} THEN [found |-> FALSE]
      ELSE LET i == CHOOSE x \in opens : \A y \in opens : x <= y
               j == CHOOSE x \in closes(i) : \A y \in closes(i) : x <= y
           IN  [found |-> TRUE,
                content |-> SubSeq(text, i + Len(OpenTag(t)), j - 1)]

\* C14: for every reply and every tag name, _parse_tag returns, never
\* raises, and what it returns is the trimmed inner content of the first
\* well-formed block of that tag, or the empty string when the reply holds
\* no such block.
C14_TagExtraction ==
  (op = "_parse_tag" /\ agent_pc # "call") =>
    /\ agent_pc = "returned"
    /\ retval = (IF FirstBlock(response, tag).found
                   THEN Strip(FirstBlock(response, tag).content)
                   ELSE <<>>)

\* The lines of a block that are no fence markers.
NonFenceLines(block) ==
  SelectSeq(SplitLines(block), LAMBDA line : ~StartsWith(Strip(line), FENCE))

\* C15: what _filter_code returns is unchanged by filtering it again, has
\* no line that begins, once trimmed, with three back-quotes, and its lines
\* are the non-fence lines of the input, in their order, none dropped (an
\* empty last line that the output does not terminate counts as kept).
C15_FilterIdempotentOrderPreserving ==
  (op = "_filter_code" /\ agent_pc = "returned") =>
    /\ _filter_code(retval) = retval
    /\ \A k \in 1..Len(SplitLines(retval)) :
         ~StartsWith(Strip(SplitLines(retval)[k]), FENCE)
    /\ NonFenceLines(raw_code_block) \in
         {SplitLines(retval), Append(SplitLines(retval), <<>>)}

\* The reply holds a block of the bash tag whose content is not blank.
HasCommand(resp) ==
  /\ FirstBlock(resp, BASH).found
  /\ Strip(FirstBlock(resp, BASH).content) # <<>>

\* C16: a round whose reply holds a command returns normally, having called
\* tool.execute once, with that command, and logged no warning; the prompt
\* it returns holds the four fields of the process in the order invocation,
\* return code, stdout, stderr, each between its labels, whatever the return
\* code and the stderr are.
C16_CommandRoundFormatsRecord ==
  (op = "_container_handle_bash_command" /\ agent_pc # "call"
     /\ HasCommand(response)) =>
    /\ agent_pc = "returned"
    /\ Len(executed) = 1
    /\ executed[1].command = Strip(FirstBlock(response, BASH).content)
    /\ warnings = <<>>
    /\ retval.type = "Prompt"
    /\ LET process == executed[1].process
           text == retval.initial
       IN  /\ Len(text) = 12
           /\ SubSeq(text, 1, 3) =
                <<"<bash>\n", process.args, "\n</bash>\n">>
           /\ SubSeq(text, 4, 6) =
                <<"<return code>\n", process.returncode, "\n</return code>\n">>
           /\ SubSeq(text, 7, 9) =
                <<"<stdout>\n", process.stdout, "\n</stdout>\n">>
           /\ SubSeq(text, 10, 12) =
                <<"<stderr>\n", process.stderr, "\n</stderr>\n">>

\* A round whose command, given with blanks around it, failed with return
\* code 1 and no stderr: the handler returned the four fields.
C16_Witness ==
  /\ op = "_container_handle_bash_command"
  /\ agent_pc = "returned"
  /\ response =
       OpenTag(BASH) \o <<" ">> \o <<"l", "s">> \o CloseTag(BASH)
  /\ Len(executed) = 1
  /\ executed[1].process.returncode = 1
  /\ executed[1].process.stderr = ""
  /\ Len(retval.initial) = 12

\* C17: a round whose reply holds no command (no bash block, an empty one
\* or a blank one) returns normally without calling tool.execute, logs one
\* warning that carries the round number and the reply, and returns the
\* prompt made of the tool's tutorial, the same in the three cases.
C17_NoCommandFallsBackToTutorial ==
  (op = "_container_handle_bash_command" /\ agent_pc # "call"
     /\ ~HasCommand(response)) =>
    /\ agent_pc = "returned"
    /\ executed = <<>>
    /\ Len(warnings) = 1
    /\ warnings[1].level = "WARNING"
    /\ warnings[1].msg[2] = cur_round
    /\ warnings[1].msg[4] = response
    /\ retval.type = "Prompt"
    /\ retval.initial =
         <<"No bash command received, Please follow the interaction protocols:\n",
           Tutorial>>

\* The second round's reply holds a bash block of blanks only: the handler
\* returned the tutorial prompt.
C17_Witness ==
  /\ op = "_container_handle_bash_command"
  /\ agent_pc = "returned"
  /\ cur_round = 2
  /\ response = OpenTag(BASH) \o <<" ">> \o <<"\n">> \o CloseTag(BASH)
  /\ executed = <<>>
  /\ Len(warnings) = 1

\* The submitted experiments whose result the calling process does not have.
Unserved ==
  {j \in 1..N : ~(j <= Len(experiment_tasks) /\ experiment_tasks[j].ready)}

\* All experiments but one at most are submitted, done and reported, and the
\* one that is not holds a worker.
AllButOneServed ==
  /\ Cardinality(Unserved) <= 1
  /\ Len(StreamLines) = N - Cardinality(Unserved)
  /\ \A j \in Unserved : j \in running /\ pipeline[j] = NoOutcome

\* While the orchestrator runs, an experiment leaves its worker only by
\* completing, and a queued one leaves the queue only for a worker.
NoCancellation ==
  exit' = "running" =>
    /\ \A j \in running :
         j \in running' \/ completed' = Append(completed, j)
    /\ \A k \in 1..Len(taskqueue) :
         taskqueue[k] \in running' \/
           \E m \in 1..Len(taskqueue') : taskqueue'[m] = taskqueue[k]

\* C13: in a pool of two workers or more where no two experiments hang
\* together, from some point on, as long as the pool is alive, every
\* experiment but one at most has been submitted, run to its end and given
\* its streaming report, and the one left holds a worker; and no step of the
\* running orchestrator takes an experiment off its worker or off the queue.
C13_HungExperimentBlocksNoOther ==
  /\ <>[]((NUM_EXP >= 2 /\ PoolAlive) => AllButOneServed)
  /\ [][NoCancellation]_vars

\* The first of three experiments still runs in one of two workers; the
\* other two, queued behind it, are done and reported.
C13_Witness ==
  /\ NUM_EXP = 2
  /\ pc = "gather"
  /\ N = 3
  /\ running = {1}
  /\ pipeline[1] = NoOutcome
  /\ completed = <<2, 3>>
  /\ Len(StreamLines) = 2
  /\ Unserved = {1}

\* The jobs the pool has been given, by where they are.
Queued == {taskqueue[k] : k \in 1..Len(taskqueue)}
Completed == {completed[k] : k \in 1..Len(completed)}

\* C18: with NUM_EXP > 1, no more than NUM_EXP experiments run at a time;
\* the submission loop can always submit its next config, whatever runs or
\* waits; while the pool is alive every submitted config is in one place
\* only, queued, running or completed, and completed once at most; and when
\* main() has its results every config has completed exactly once.
C18_AtMostPRunEachOnce ==
  NUM_EXP > 1 =>
    /\ Cardinality(running) <= NUM_EXP
    /\ (pc = "submit" /\ Len(experiment_tasks) < N) => ENABLED Submit
    /\ Cardinality(Queued) = Len(taskqueue)
    /\ Cardinality(Completed) = Len(completed)
    /\ Queued \cap running = {}
    /\ Queued \cap Completed = {}
    /\ running \cap Completed = {}
    /\ PoolAlive =>
         Queued \cup running \cup Completed = 1..Len(experiment_tasks)
    /\ Settled => (Completed = 1..N /\ Len(completed) = N)

\* Three configs are submitted to two workers and none has completed: two
\* run, the third is queued.
C18_Witness ==
  /\ NUM_EXP = 2
  /\ N = 3
  /\ pc = "gather"
  /\ Len(experiment_tasks) = 3
  /\ completed = <<>>
  /\ running = {1, 2}
  /\ taskqueue = <<3>>

\* What identifies an upload: the file and the blob's function and coverage.
Artifact(filename, function_name, best_cov) ==
  [filename |-> filename, function_name |-> function_name,
   best_cov |-> best_cov]

RECURSIVE EligibleArtifacts(_)
\* The artifacts of the results of coverage diff > 0 among the first p of
\* the result list, in the list's order.
EligibleArtifacts(p) ==
  IF p = 0 THEN <<>>
  ELSE LET r == experiment_results[p]
       IN  IF r.result.type = "AggregatedResult"
              /\ r.result.max_line_coverage_diff > 0
             THEN Append(EligibleArtifacts(p - 1),
                         Artifact(r.result.max_coverage_diff_sample,
                                  r.benchmark.function_name,
                                  r.result.max_line_coverage_diff))
             ELSE EligibleArtifacts(p - 1)

\* The artifacts uploaded, in the order of their upload.
UploadedArtifacts ==
  [k \in 1..Len(uploads) |->
     Artifact(uploads[k].filename, uploads[k].blob.function_name,
              uploads[k].blob.best_cov)]

\* C19: the uploads are at any time the eligible artifacts of a prefix of
\* the result list, in order: of the results the loop has passed while it
\* runs, of all results when promotion ended without error, and of the
\* results before the failing one when an upload raised, nothing of a later
\* result being uploaded and nothing uploaded before being taken back.
C19_UploadsAreEligiblePrefix ==
  /\ \E p \in 0..Len(experiment_results) :
       UploadedArtifacts = EligibleArtifacts(p)
  /\ pc = "save_loop" => UploadedArtifacts = EligibleArtifacts(save_i - 1)
  /\ (pc = "done" /\ Truthy(args.cloud_save_bucket) /\ errlog = <<>>) =>
       UploadedArtifacts = EligibleArtifacts(N)
  /\ (pc = "done" /\ errlog # <<>>) =>
       /\ save_i <= N
       /\ UploadedArtifacts = EligibleArtifacts(IF save_i = 0 THEN 0
                                                ELSE save_i - 1)

\* Of three results of coverage diff 5 for different functions the first
\* was uploaded, the upload of the second raised, and main() returned
\* with the third never uploaded.
C19_Witness ==
  /\ pc = "done"
  /\ errlog # <<>>
  /\ N = 3
  /\ \A i \in 1..N : pipeline[i] = [kind |-> "return", cov |-> 5]
  /\ experiment_configs[2] # experiment_configs[3]
  /\ save_i = 2
  /\ Len(uploads) = 1

\* C20: a run whose arguments parse_args accepted, with NUM_EXP >= 1, ends
\* only after collecting a result for every config and printing the final
\* report, and it ends normally.
C20_ValidatedRunEndsWithReport ==
  (ArgsAccepted(args, template_is_dir) /\ NUM_EXP >= 1 /\ exit # "running") =>
    /\ exit = "ok"
    /\ Len(experiment_results) = N
    /\ FinalAt # {}
====
